---- MODULE Spec2Model ----
(***************************************************************************)
(* Model of src/main.py (tg-news-bot): the scheduler loop start_loop, one  *)
(* polling cycle main_job, the per-source item loop process_source, the    *)
(* delivery with one rate-limit retry safe_send_html, and the sqlite       *)
(* ledger sent_items.  The program is one asyncio coroutine, so there is   *)
(* one program counter pc; the clock advances between any two steps.       *)
(***************************************************************************)
EXTENDS Integers, Sequences, FiniteSets, TLC

(* ---------------- configuration (src/main.py:26-37, read from env) ------ *)
\* The values are set through the environment; the model runs a small
\* configuration.  The clock is observed once per check interval.
CHECK_INTERVAL_MINUTES == 360
MAX_POSTS_PER_RUN == 2
DAILY_MAX_POSTS == 3
DOMAIN_MAX_PER_24H == 1
NIGHT_START_HOUR == 0
NIGHT_END_HOUR == 7

(* ---------------- bounds of the model ---------------------------------- *)
\* number of clock ticks the model follows
MaxTicks == 4
\* number of failures of the environment in one behaviour: storage errors
\* of the ledger, sends the channel refuses, failed fetches, unusable
\* sources files
MaxFailures == 2

\* timedelta(hours=24), in seconds
DaySeconds == 24 * 3600
\* the interval slept between cycles, in seconds (line 334)
IntervalSeconds == CHECK_INTERVAL_MINUTES * 60
\* one clock tick: the clock is sampled once per interval
TickSeconds == IntervalSeconds
\* the clock value at process start: 12:00 of the first day
StartTime == 12 * 3600
EndOfTime == StartTime + MaxTicks * TickSeconds

(* ---------------- item URLs -------------------------------------------- *)
\* A URL is its hostname as written and the rest of the string.
Url(h, p) == [host |-> h, path |-> p]
U_a1 == Url("a.example", 1)
U_A2 == Url("A.EXAMPLE", 2)
U_b1 == Url("b.example", 1)
U_n1 == Url("", 1)
U_n2 == Url("", 2)
Urls == {U_a1, U_A2, U_b1, U_n1, U_n2}

\* str.lower() on the hostnames of the model
Lower(h) == IF h = "A.EXAMPLE" THEN "a.example" ELSE h

\* domain_from_url: (urlparse(url).hostname or "").lower()
domain_from_url(u) == Lower(u.host)

\* norm_hash: sha256 of the raw URL string, no normalisation; distinct
\* strings have distinct digests
norm_hash(u) == <<"sha256", u.host, u.path>>

Domains == {domain_from_url(u) : u \in Urls}

(* ---------------- clock ------------------------------------------------- *)
\* datetime.now().hour for a clock value in seconds (server time zone UTC)
HourOf(t) == (t \div 3600) % 24

\* mutant of NightWindow: the end hour belongs to the window
NightWindowClosed(h, start, end) ==
    IF start < end THEN (h >= start /\ h <= end)
                   ELSE (h >= start \/ h <= end)

\* mutant of NightWindow: equal hours give an empty window
NightWindowEmptyWhenEqual(h, start, end) ==
    IF start <= end THEN (h >= start /\ h < end)
                    ELSE (h >= start \/ h < end)

\* the test of in_night_mode (lines 213-217) with the hour and the
\* configured hours as parameters
NightWindow(h, start, end) ==
    IF start < end THEN (h >= start /\ h < end)
                   ELSE (h >= start \/ h < end)

(* ---------------- ledger (table sent_items) ---------------------------- *)
\* a row of sent_items; ts is the UTC time of the insert
Row(u, title, t) == [url_hash |-> norm_hash(u), url |-> u,
                     domain |-> domain_from_url(u), title |-> title,
                     ts |-> t]

\* mutant of already_sent: the test of the fetched row is inverted (r is None)
already_sent_inverted(l, u) == ~\E r \in l : r.url_hash = norm_hash(u)

\* SELECT 1 FROM sent_items WHERE url_hash = ?
already_sent(l, u) == \E r \in l : r.url_hash = norm_hash(u)

\* mutant of mark_sent: INSERT OR REPLACE
mark_sent_replace(l, u, title, t) ==
    {r \in l : r.url_hash # norm_hash(u)} \cup {Row(u, title, t)}

\* INSERT OR IGNORE: url_hash is the primary key
mark_sent(l, u, title, t) ==
    IF \E r \in l : r.url_hash = norm_hash(u)
    THEN l
    ELSE l \cup {Row(u, title, t)}

\* mutant of count_sent_last_24h: ts > cutoff
count_sent_last_24h_strict(l, t) ==
    Cardinality({r \in l : r.ts > t - DaySeconds})

\* SELECT COUNT(*) FROM sent_items WHERE ts >= cutoff
count_sent_last_24h(l, t) ==
    Cardinality({r \in l : r.ts >= t - DaySeconds})

\* if not domain: return 0; else the count filtered by domain
count_sent_by_domain_last_24h(l, d, t) ==
    IF d = "" THEN 0
    ELSE Cardinality({r \in l : r.domain = d /\ r.ts >= t - DaySeconds})

Max(a, b) == IF a >= b THEN a ELSE b
Min(a, b) == IF a <= b THEN a ELSE b
Min3(a, b, c) == Min(a, Min(b, c))

\* remaining_today = max(0, DAILY_MAX_POSTS - sent_last24)
remaining_today(l, t) == Max(0, DAILY_MAX_POSTS - count_sent_last_24h(l, t))

(* ---------------- sources and feeds ------------------------------------- *)
\* the list load_sources_from_yaml returns for a well-formed sources file
AllSources == <<"s1", "s2">>

\* what SOURCES_FILE may hold when a cycle loads it: a well-formed list of
\* sources, no file, a list whose entries have no url, text that is no YAML,
\* a YAML document of another shape (a top-level list, or sources that is
\* no list of mappings)
SourcesFiles == {"well_formed", "absent", "no_urls", "unparsable",
                 "wrong_shape"}

\* load_sources_from_yaml (lines 131-145): [] for a missing file (line 134)
\* and for entries without url (lines 141-142); yaml.safe_load raises on
\* unparsable text (line 136), data.get and s.get raise on a document of
\* another shape (lines 137, 140)
load_sources_from_yaml(file) ==
    CASE file = "well_formed" -> [raised |-> FALSE, out |-> AllSources]
      [] file \in {"absent", "no_urls"} -> [raised |-> FALSE, out |-> <<>>]
      [] OTHER -> [raised |-> TRUE, out |-> <<>>]

\* titles: the cleaned title of an entry (line 262), and another text
Titles == {"title", "other title"}

\* clean_text(e.get("title", "")) or url, line 262: every entry of the
\* model carries the same title
TitleOf(u) == "title"

\* the entries fetch_feed_entries returns for a source (link of each entry)
Feed(s) == IF s = "s1" THEN <<U_a1, U_a1, U_A2, U_b1>>
                       ELSE <<U_n1, U_a1, U_n2>>

(* ---------------- state -------------------------------------------------- *)
VARIABLES
    pc,              \* position of the coroutine
    now,             \* the clock, in seconds
    ledger,          \* rows of sent_items
    BOT_TOKEN,       \* TELEGRAM_BOT_TOKEN of the environment, "" when unset
    CHAT_ID,         \* TELEGRAM_CHAT_ID of the environment, "" when unset
    nightStart,      \* NIGHT_START_HOUR the process runs with
    nightEnd,        \* NIGHT_END_HOUR the process runs with
    sources,         \* main_job: sources
    srcIdx,          \* main_job: position of the for loop over sources
    posts_remaining, \* main_job: posts_remaining
    entries,         \* process_source: entries
    idx,             \* process_source: position of the for loop over entries
    sent,            \* process_source: sent
    posts_left,      \* process_source: posts_left
    domain_count,    \* process_source: domain_count
    attempts,        \* safe_send_html: calls of send_message_telegram so far
    sleepUntil,      \* start_loop: end of the running asyncio.sleep
    failures,        \* failures of the environment so far
    delivered,       \* history: messages accepted by the channel, in order
    cycleNo,         \* history: number of main_job invocations started
    cycleDelivered,  \* history: messages accepted in the current cycle
    running,         \* history: number of main_job invocations in progress
    cycleStop,       \* history: stop signal seen in the current cycle
    startAllowed,    \* history: posts_remaining computed at cycle start, or -1
    lastDone,        \* history: clock at the end of the last cycle, or -1
    decision,        \* history: what became of the entry handled last
    sourcesFile,     \* history: what the last load found in SOURCES_FILE
    unpaced          \* history: a message was accepted in this cycle and
                     \* the sleep of line 288 has not followed it yet

\* what the process reads from its environment at import (lines 19-37)
environ == <<BOT_TOKEN, CHAT_ID, nightStart, nightEnd>>

\* in_night_mode at clock value t
in_night_mode(t) == NightWindow(HourOf(t), nightStart, nightEnd)

vars == <<pc, now, ledger, environ, sources, srcIdx, posts_remaining, entries,
          idx, sent, posts_left, domain_count, attempts, sleepUntil, failures,
          delivered, cycleNo, cycleDelivered, running, cycleStop,
          startAllowed, lastDone, decision, sourcesFile, unpaced>>

locals == <<entries, idx, sent, posts_left, domain_count, attempts>>
jobvars == <<sources, srcIdx, posts_remaining>>
sched == <<sleepUntil, cycleNo, running, startAllowed, lastDone>>
world == <<now, ledger, environ, delivered, cycleDelivered>>

\* a delivery: the channel answered 200 to a send of url at clock value at
Delivery(u, t) == [url |-> u, at |-> t, recorded |-> FALSE]

\* values of a credential variable: unset (or empty), or set
Credentials == {"", "set"}

\* the night hours the process may be configured with: the hours of this
\* configuration, or any hour as both the start and the end
NightHours == {<<NIGHT_START_HOUR, NIGHT_END_HOUR>>}
                 \cup {<<h, h>> : h \in 0..23}

\* ledgers the process may find at start: empty, or one delivery made twelve
\* hours before by an earlier run of the process
InitLedgers == {{}, {Row(U_b1, TitleOf(U_b1), 0)}}

Init ==
    /\ pc = "boot"
    /\ now = StartTime
    /\ ledger \in InitLedgers
    /\ BOT_TOKEN \in Credentials
    /\ CHAT_ID \in Credentials
    /\ \E hours \in NightHours :
          /\ nightStart = hours[1]
          /\ nightEnd = hours[2]
    /\ sources = <<>>
    /\ srcIdx = 0
    /\ posts_remaining = 0
    /\ entries = <<>>
    /\ idx = 0
    /\ sent = 0
    /\ posts_left = 0
    /\ domain_count = 0
    /\ attempts = 0
    /\ sleepUntil = 0
    /\ failures = 0
    /\ delivered = <<>>
    /\ cycleNo = 0
    /\ cycleDelivered = 0
    /\ running = 0
    /\ cycleStop = "none"
    /\ startAllowed = -1
    /\ lastDone = -1
    /\ decision = "none"
    /\ sourcesFile = "none"
    /\ unpaced = FALSE

(* ---------------- control-flow helpers ----------------------------------- *)
\* the url of the entry under the for loop of process_source
CurUrl == entries[idx]

\* the environment may fail once more
CanFail == failures < MaxFailures

\* the environment fails
Fail == failures' = failures + 1

\* start_loop calls main_job (lines 331 and 335)
StartJob ==
    /\ pc' = "load"
    /\ cycleNo' = cycleNo + 1
    /\ cycleDelivered' = 0
    /\ running' = running + 1
    /\ cycleStop' = "none"
    /\ startAllowed' = -1
    /\ decision' = "none"
    /\ unpaced' = FALSE
    /\ UNCHANGED <<now, ledger, environ, sourcesFile, delivered, jobvars, locals,
                   sleepUntil, lastDone, failures>>

\* main_job returns; start_loop goes on to asyncio.sleep (line 334)
FinishJob ==
    /\ pc' = "sleep"
    /\ sleepUntil' = now + IntervalSeconds
    /\ running' = running - 1
    /\ lastDone' = now
    /\ sources' = <<>>
    /\ srcIdx' = 0
    /\ posts_remaining' = 0
    /\ UNCHANGED <<cycleNo, startAllowed>>

\* an exception leaves main_job and start_loop: asyncio.run raises, the
\* process ends (only KeyboardInterrupt is caught, lines 338-341)
Crash ==
    /\ pc' = "crashed"
    /\ running' = running - 1
    /\ UNCHANGED <<sleepUntil, jobvars, cycleNo, startAllowed, lastDone>>

ClearLocals ==
    /\ entries' = <<>>
    /\ idx' = 0
    /\ sent' = 0
    /\ posts_left' = 0
    /\ domain_count' = 0
    /\ attempts' = 0

\* process_source returns sent (line 292); posts_remaining -= sent (line 318)
ReturnSource ==
    /\ posts_remaining' = posts_remaining - sent
    /\ srcIdx' = srcIdx + 1
    /\ pc' = "src_loop"
    /\ ClearLocals
    /\ UNCHANGED <<sources, sched>>

\* an exception leaves process_source and is caught at line 319: sent is
\* lost, posts_remaining keeps its value, the for loop goes on
RaiseInSource ==
    /\ CanFail
    /\ Fail
    /\ cycleStop' = "ledger"
    /\ decision' = "ledger_error"
    /\ srcIdx' = srcIdx + 1
    /\ pc' = "src_loop"
    /\ ClearLocals
    /\ UNCHANGED <<sources, posts_remaining, sched>>

\* mutant of NextItem: break in place of continue
NextItemStops == ReturnSource

\* continue: the for loop over entries takes the next entry
NextItem ==
    /\ idx' = idx + 1
    /\ pc' = "item"
    /\ domain_count' = 0
    /\ attempts' = 0
    /\ UNCHANGED <<entries, sent, posts_left, jobvars, sched>>

(* ---------------- start_loop --------------------------------------------- *)
\* mutant of CredentialsMissing: only the token is looked at
CredentialsMissingTokenOnly == BOT_TOKEN = ""

\* not BOT_TOKEN or not CHAT_ID, line 326
CredentialsMissing == BOT_TOKEN = "" \/ CHAT_ID = ""

\* lines 326-328: missing credentials raise SystemExit(1)
Boot ==
    /\ pc = "boot"
    /\ pc' = IF CredentialsMissing THEN "exited" ELSE "init_db"
    /\ UNCHANGED <<sourcesFile, unpaced, world, jobvars, locals, sched,
                   failures, cycleStop,
                   decision>>

\* lines 329-331: CREATE TABLE IF NOT EXISTS keeps the rows; then the first
\* main_job is awaited, with no sleep before it
InitDb ==
    /\ pc = "init_db"
    /\ StartJob

\* mutant of SleepDone: the sleep returns at once
SleepSkipped == TRUE

\* the sleep of line 334 ends once the interval has passed
SleepDone == now >= sleepUntil

\* lines 333-335: after the sleep the next main_job is awaited
Wake ==
    /\ pc = "sleep"
    /\ SleepDone
    /\ StartJob

\* the awaits during which the model lets the clock advance: the fetch
\* (line 223), the first ledger read of an entry (line 242), the rate-limit
\* sleep (line 197), the write of mark_sent (line 285) and the sleep between
\* two cycles (line 334)
TickPoints == {"fetch", "daily", "backoff", "mark", "sleep"}

\* the clock advances while the coroutine is suspended; the sleep between
\* two cycles ends when the interval has passed
Tick ==
    /\ pc \in TickPoints
    /\ pc = "sleep" => now < sleepUntil
    /\ now + TickSeconds <= EndOfTime
    /\ now' = now + TickSeconds
    /\ UNCHANGED <<pc, ledger, environ, sourcesFile, unpaced, delivered,
                   cycleDelivered, jobvars,
                   locals, sched, failures, cycleStop, decision>>

(* ---------------- main_job ----------------------------------------------- *)
\* lines 296-299: the sources file is read anew in every cycle; nothing in
\* main_job or start_loop catches what load_sources_from_yaml raises
Load ==
    /\ pc = "load"
    /\ \E file \in SourcesFiles :
          LET loaded == load_sources_from_yaml(file) IN
          /\ sourcesFile' = file
          /\ IF loaded.raised
             THEN /\ CanFail
                  /\ Fail
                  /\ Crash
             ELSE IF loaded.out = <<>>
             THEN /\ CanFail
                  /\ Fail
                  /\ FinishJob
             ELSE /\ sources' = loaded.out
                  /\ pc' = "night0"
                  /\ UNCHANGED <<srcIdx, posts_remaining, sched, failures>>
    /\ UNCHANGED <<unpaced, world, locals, cycleStop, decision>>

\* lines 301-303
NightAtStart ==
    /\ pc = "night0"
    /\ IF in_night_mode(now)
       THEN /\ cycleStop' = "night"
            /\ FinishJob
       ELSE /\ pc' = "count0"
            /\ UNCHANGED <<jobvars, sched, cycleStop>>
    /\ UNCHANGED <<sourcesFile, unpaced, world, locals, failures, decision>>

\* min(MAX_POSTS_PER_RUN, remaining_today), line 311
RunBudget(rem) == Min(MAX_POSTS_PER_RUN, rem)

\* lines 305-311: a storage error of count_sent_last_24h leaves main_job
CountAtStart ==
    /\ pc = "count0"
    /\ \/ /\ CanFail
          /\ Fail
          /\ cycleStop' = "ledger"
          /\ Crash
       \/ /\ LET rem == remaining_today(ledger, now) IN
             IF rem <= 0
             THEN /\ cycleStop' = "daily"
                  /\ FinishJob
             ELSE /\ posts_remaining' = RunBudget(rem)
                  /\ startAllowed' = RunBudget(rem)
                  /\ srcIdx' = 1
                  /\ pc' = "src_loop"
                  /\ UNCHANGED <<sources, sleepUntil, cycleNo, running,
                                 lastDone, cycleStop>>
          /\ UNCHANGED failures
    /\ UNCHANGED <<sourcesFile, unpaced, world, locals, decision>>

\* the for loop of main_job goes on to the next source (lines 313-315)
MoreSources == srcIdx <= Len(sources) /\ posts_remaining > 0

\* lines 313-315 and 322
SourceLoop ==
    /\ pc = "src_loop"
    /\ IF MoreSources
       THEN /\ pc' = "fetch"
            /\ UNCHANGED <<jobvars, sched>>
       ELSE FinishJob
    /\ UNCHANGED <<sourcesFile, unpaced, world, locals, failures, cycleStop,
                   decision>>

(* ---------------- process_source ----------------------------------------- *)
\* mutant of FetchFailed: the exception of the fetch ends the cycle
FetchFailedEndsCycle ==
    /\ FinishJob
    /\ UNCHANGED locals

\* lines 224-226 and 317-318: the except clause returns 0, main_job
\* subtracts 0 and takes the next source
FetchFailed ==
    /\ srcIdx' = srcIdx + 1
    /\ pc' = "src_loop"
    /\ UNCHANGED <<sources, posts_remaining, locals, sched>>

\* lines 220-226: fetch_feed_entries returns the entries or raises
Fetch ==
    /\ pc = "fetch"
    /\ \/ /\ entries' = Feed(sources[srcIdx])
          /\ idx' = 1
          /\ sent' = 0
          /\ posts_left' = posts_remaining
          /\ pc' = "item"
          /\ UNCHANGED <<jobvars, sched, domain_count, attempts, failures>>
       \/ /\ CanFail
          /\ Fail
          /\ FetchFailed
    /\ UNCHANGED <<sourcesFile, unpaced, world, cycleStop, decision>>

\* lines 228-239: end of the entries, run budget used up, or night mode
ItemHead ==
    /\ pc = "item"
    /\ IF idx > Len(entries) \/ posts_left <= 0
       THEN /\ ReturnSource
            /\ UNCHANGED <<cycleStop, decision>>
       ELSE IF in_night_mode(now)
       THEN /\ ReturnSource
            /\ cycleStop' = "night"
            /\ decision' = "stop_night"
       ELSE /\ pc' = "daily"
            /\ UNCHANGED <<jobvars, locals, sched, cycleStop, decision>>
    /\ UNCHANGED <<sourcesFile, unpaced, world, failures>>

\* min(posts_left, remaining_today, MAX_POSTS_PER_RUN), line 249
effective_allowed(left, rem) == Min3(left, rem, MAX_POSTS_PER_RUN)

\* lines 242-251
DailyCheck ==
    /\ pc = "daily"
    /\ \/ RaiseInSource
       \/ /\ LET rem == remaining_today(ledger, now) IN
             IF rem <= 0
             THEN /\ ReturnSource
                  /\ cycleStop' = "daily"
                  /\ decision' = "stop_daily"
             ELSE IF effective_allowed(posts_left, rem) <= 0
             THEN /\ ReturnSource
                  /\ UNCHANGED <<cycleStop, decision>>
             ELSE /\ pc' = "dup"
                  /\ UNCHANGED <<jobvars, locals, sched, cycleStop, decision>>
          /\ UNCHANGED failures
    /\ UNCHANGED <<sourcesFile, unpaced, world>>

\* lines 253-254
DupCheck ==
    /\ pc = "dup"
    /\ \/ RaiseInSource
       \/ /\ IF already_sent(ledger, CurUrl)
             THEN /\ NextItem
                  /\ decision' = "skip_dup"
             ELSE /\ pc' = "domain"
                  /\ UNCHANGED <<jobvars, locals, sched, decision>>
          /\ UNCHANGED <<failures, cycleStop>>
    /\ UNCHANGED <<sourcesFile, unpaced, world>>

\* mutant of DomainCapReached: domain_count > DOMAIN_MAX_PER_24H
DomainCapExceeded(c) == c > DOMAIN_MAX_PER_24H

\* domain_count >= DOMAIN_MAX_PER_24H, line 258
DomainCapReached(c) == c >= DOMAIN_MAX_PER_24H

\* lines 256-260: count_sent_by_domain_last_24h opens the database only for
\* a non-empty domain
DomainCheck ==
    /\ pc = "domain"
    /\ \/ /\ domain_from_url(CurUrl) # ""
          /\ RaiseInSource
       \/ /\ LET c == count_sent_by_domain_last_24h(
                          ledger, domain_from_url(CurUrl), now) IN
             IF DomainCapReached(c)
             THEN /\ NextItem
                  /\ decision' = "skip_domain"
             ELSE /\ pc' = "send1"
                  /\ domain_count' = c
                  /\ decision' = "admit"
                  /\ UNCHANGED <<jobvars, entries, idx, sent, posts_left,
                                 attempts, sched>>
          /\ UNCHANGED <<failures, cycleStop>>
    /\ UNCHANGED <<sourcesFile, unpaced, world>>

(* ---------------- safe_send_html ------------------------------------------ *)
\* what send_message_telegram returns: (True, None), (False, ("rate_limit", n))
\* or (False, ("error" | "exception", text)); lines 165-182
SendResults == {"ok", "rate_limit", "error", "exception"}

\* mutant of AfterFirstSend: every failed first send is retried
AfterFirstSendAlwaysRetries(res) == IF res = "ok" THEN "mark" ELSE "backoff"

\* where safe_send_html goes after its first send (lines 191-205)
AfterFirstSend(res) ==
    IF res = "ok" THEN "mark"
    ELSE IF res = "rate_limit" THEN "backoff"
    ELSE "cooldown"

\* mutant of AfterRetry: the result of the retry is not looked at
AfterRetryUnchecked(res) == "mark"

\* where safe_send_html goes after the retry (lines 198-202)
AfterRetry(res) == IF res = "ok" THEN "mark" ELSE "cooldown"

\* the channel answers a send
SendResult(res) ==
    IF res = "ok"
    THEN /\ delivered' = Append(delivered, Delivery(CurUrl, now))
         /\ cycleDelivered' = cycleDelivered + 1
         /\ decision' = "delivered"
         /\ unpaced' = TRUE
         /\ UNCHANGED failures
    ELSE /\ CanFail
         /\ Fail
         /\ decision' = IF res = "rate_limit" THEN "rate_limited" ELSE "failed"
         /\ UNCHANGED <<delivered, cycleDelivered, unpaced>>

\* lines 282 and 191-196, 203-205: the first send
Send1 ==
    /\ pc = "send1"
    /\ attempts' = attempts + 1
    /\ \E res \in SendResults :
          /\ pc' = AfterFirstSend(res)
          /\ SendResult(res)
    /\ UNCHANGED <<now, ledger, environ, sourcesFile, jobvars, entries, idx,
                   sent,
                   posts_left, domain_count, sched, cycleStop>>

\* line 197: asyncio.sleep(retry_after + 1); the clock may tick meanwhile
Backoff ==
    /\ pc = "backoff"
    /\ pc' = "send2"
    /\ UNCHANGED <<sourcesFile, unpaced, world, jobvars, locals, sched,
                   failures, cycleStop,
                   decision>>

\* lines 198-202: the one retry
Send2 ==
    /\ pc = "send2"
    /\ attempts' = attempts + 1
    /\ \E res \in SendResults :
          /\ pc' = AfterRetry(res)
          /\ SendResult(res)
    /\ UNCHANGED <<now, ledger, environ, sourcesFile, jobvars, entries, idx,
                   sent,
                   posts_left, domain_count, sched, cycleStop>>

\* the last delivery is marked as recorded in the history
MarkRecorded(d) ==
    IF Len(d) = 0 THEN d ELSE [d EXCEPT ![Len(d)].recorded = TRUE]

\* lines 283-287: after a successful send; a storage error of mark_sent
\* leaves process_source before sent and posts_left are touched
Mark ==
    /\ pc = "mark"
    /\ \/ /\ RaiseInSource
          /\ UNCHANGED <<ledger, delivered>>
       \/ /\ ledger' = mark_sent(ledger, CurUrl, TitleOf(CurUrl), now)
          /\ sent' = sent + 1
          /\ posts_left' = posts_left - 1
          /\ delivered' = MarkRecorded(delivered)
          /\ decision' = "recorded"
          /\ pc' = "delay"
          /\ UNCHANGED <<jobvars, entries, idx, domain_count, attempts,
                         sched, failures, cycleStop>>
    /\ UNCHANGED <<now, environ, sourcesFile, unpaced, cycleDelivered>>

\* line 288: asyncio.sleep(MIN_DELAY_BETWEEN_POSTS), a sleep shorter than a
\* clock tick, then the next entry
Delay ==
    /\ pc = "delay"
    /\ NextItem
    /\ unpaced' = FALSE
    /\ UNCHANGED <<sourcesFile, world, failures, cycleStop, decision>>

\* line 290: asyncio.sleep(5), a sleep shorter than a clock tick, then the
\* next entry
Cooldown ==
    /\ pc = "cooldown"
    /\ NextItem
    /\ UNCHANGED <<sourcesFile, unpaced, world, failures, cycleStop, decision>>

(* ---------------- shutdown ------------------------------------------------ *)
\* positions at which the process is alive
Alive == {"init_db", "load", "night0", "count0", "src_loop", "fetch", "item",
          "daily", "dup", "domain", "send1", "backoff", "send2", "mark",
          "delay", "cooldown", "sleep"}

\* lines 337-341: the program installs no signal handler and keeps no
\* shutdown flag.  SIGINT cancels the coroutine where it is suspended and
\* the KeyboardInterrupt is passed over; SIGTERM ends the process at once.
\* Either way nothing of main_job runs after the signal: its variables are
\* gone, and the history of the cycle ends with it.
Shutdown ==
    /\ pc \in Alive
    /\ pc' = "stopped"
    /\ running' = 0
    /\ sources' = <<>>
    /\ srcIdx' = 0
    /\ posts_remaining' = 0
    /\ ClearLocals
    /\ cycleDelivered' = 0
    /\ cycleStop' = "none"
    /\ startAllowed' = -1
    /\ decision' = "none"
    /\ unpaced' = FALSE
    /\ UNCHANGED <<now, ledger, environ, delivered, sourcesFile, sleepUntil,
                   cycleNo, lastDone, failures>>

(* ---------------- specification ------------------------------------------ *)
Next ==
    \/ Boot
    \/ InitDb
    \/ Wake
    \/ Tick
    \/ Load
    \/ NightAtStart
    \/ CountAtStart
    \/ SourceLoop
    \/ Fetch
    \/ ItemHead
    \/ DailyCheck
    \/ DupCheck
    \/ DomainCheck
    \/ Send1
    \/ Backoff
    \/ Send2
    \/ Mark
    \/ Delay
    \/ Cooldown
    \/ Shutdown

Spec == Init /\ [][Next]_vars

(* ---------------- measures used by the properties ------------------------- *)
\* positions of the deliveries made at a clock value of the closed window
\* [lo, lo + 24h], all of them or the recorded ones only
DeliveriesFrom(lo) ==
    {i \in 1..Len(delivered) :
        delivered[i].at >= lo /\ delivered[i].at <= lo + DaySeconds}

RecordedFrom(lo) ==
    {i \in 1..Len(delivered) :
        /\ delivered[i].recorded
        /\ delivered[i].at >= lo /\ delivered[i].at <= lo + DaySeconds}

\* ledger rows with a timestamp in the closed window [lo, lo + 24h]
RowsFrom(lo) == {r \in ledger : r.ts >= lo /\ r.ts <= lo + DaySeconds}

\* the recorded deliveries and the rows of one domain
DomainRecordedFrom(d, lo) ==
    {i \in 1..Len(delivered) :
        /\ delivered[i].recorded
        /\ domain_from_url(delivered[i].url) = d
        /\ delivered[i].at >= lo /\ delivered[i].at <= lo + DaySeconds}

DomainRowsFrom(d, lo) ==
    {r \in ledger : r.domain = d /\ r.ts >= lo /\ r.ts <= lo + DaySeconds}

\* A closed 24-hour window that holds k items holds them from its first item
\* on, so it is enough to look at the windows that start at an item.

(* ---------------- C1 ------------------------------------------------------ *)
\* C1: in every cycle the number of messages the channel accepted is at most
\* MAX_POSTS_PER_RUN and at most the budget computed at cycle start, whatever
\* fails during the cycle; before that budget is computed nothing is sent.
C1_RunCap ==
    /\ cycleDelivered <= MAX_POSTS_PER_RUN
    /\ startAllowed >= 0 => cycleDelivered <= startAllowed
    /\ startAllowed < 0 => cycleDelivered = 0

CurDomainRows ==
    {r \in ledger : r.domain = domain_from_url(CurUrl)
                    /\ r.ts >= now - DaySeconds}

HasRow(u) == \E r \in ledger : r.url = u

C5_NoSendAtNight == [][attempts' > attempts => ~in_night_mode(now)]_vars

(* ---------------- C6 ------------------------------------------------------ *)
\* a send that the channel did not accept
SendFails ==
    pc \in {"send1", "send2"} /\ attempts' > attempts /\ delivered' = delivered

\* C6: a row is added only by mark_sent, for the entry whose delivery the
\* channel has just accepted; a failed send changes neither the ledger nor
\* sent, posts_left and posts_remaining, and leads (after the retry when the
\* channel answered with a rate limit) to the cooldown and from there to the
\* next entry; no step removes or changes a row.
C6_RecordOnlyAfterDelivery ==
    [][ /\ ledger \subseteq ledger'
        /\ ledger' # ledger =>
              /\ pc = "mark"
              /\ Len(delivered) > 0
              /\ delivered[Len(delivered)].url = CurUrl
              /\ ~delivered[Len(delivered)].recorded
              /\ ledger' = ledger \cup {Row(CurUrl, TitleOf(CurUrl), now)}
        /\ SendFails =>
              /\ ledger' = ledger
              /\ <<sent, posts_left, posts_remaining>>'
                    = <<sent, posts_left, posts_remaining>>
              /\ pc' = IF pc = "send1" /\ decision' = "rate_limited"
                       THEN "backoff" ELSE "cooldown"
        /\ (pc = "cooldown" /\ pc' \notin {pc, "stopped"}) =>
              /\ pc' = "item"
              /\ idx' = idx + 1
              /\ ledger' = ledger
              /\ <<sent, posts_left, posts_remaining>>'
                    = <<sent, posts_left, posts_remaining>>
      ]_vars

\* C6 witness: after a send that failed for good the loop is at the next
\* entry of the feed with ledger and budget as before the send
C6_Witness ==
    /\ decision = "failed"
    /\ pc = "daily"
    /\ idx = 2
    /\ sent = 0
    /\ posts_left = posts_remaining
    /\ delivered = <<>>
    /\ ledger = {}

(* ---------------- C7 ------------------------------------------------------ *)
\* a feed is fetched, or an entry is taken up for evaluation
FetchStep == pc = "fetch" /\ pc' \in {"item", "src_loop"}
EvalStep == pc = "item" /\ pc' = "daily"

\* a step that fetches nothing, evaluates nothing and delivers nothing
QuietStep == ~FetchStep /\ ~EvalStep /\ delivered' = delivered

\* C7: once night mode or an exhausted daily cap was seen in a cycle, that
\* cycle fetches no feed, evaluates no entry and delivers nothing any more.
C7_StopEndsCycle ==
    [][(cycleStop \in {"night", "daily"} => QuietStep)]_vars

(* ---------------- C8 ------------------------------------------------------ *)
\* C8: once a ledger operation raised in a cycle, that cycle fetches no
\* feed, evaluates no entry and delivers nothing any more.
C8_LedgerErrorEndsCycle == [][(cycleStop = "ledger" => QuietStep)]_vars

(* ---------------- C9 ------------------------------------------------------ *)
\* C9: an error that leaves main_job does not end the process: the loop is
\* never left through an exception.
C9_CycleErrorContained == pc # "crashed"

(* ---------------- C10 ----------------------------------------------------- *)
\* C10: the first main_job starts right after init_db, at the clock value of
\* the process start; never are two main_job invocations in progress; every
\* later main_job starts when none is in progress and the clock is at least
\* one interval past the end of the previous one.
C10_Sequencing ==
    [][ /\ running' <= 1
        /\ cycleNo' # cycleNo =>
              /\ cycleNo' = cycleNo + 1
              /\ running = 0
              /\ IF cycleNo = 0
                 THEN pc = "init_db" /\ now = StartTime /\ lastDone = -1
                 ELSE /\ pc = "sleep"
                      /\ lastDone >= 0
                      /\ now >= lastDone + IntervalSeconds
      ]_vars

\* C10 witness: a third cycle has started, one interval after the second
\* one ended
C10_Witness ==
    /\ cycleNo = 3
    /\ pc = "load"
    /\ running = 1
    /\ now = lastDone + IntervalSeconds

(* ---------------- C11 ----------------------------------------------------- *)
\* C11: with the bot token or the chat id missing the process goes from its
\* start straight to its exit: init_db is never reached, no main_job starts,
\* no feed is fetched, no send is made, the ledger is as it was found.
C11_MissingCredentialsFatal ==
    (BOT_TOKEN = "" \/ CHAT_ID = "") =>
        /\ pc \in {"boot", "exited"}
        /\ cycleNo = 0
        /\ running = 0
        /\ sources = <<>>
        /\ entries = <<>>
        /\ attempts = 0
        /\ delivered = <<>>
        /\ ledger \in InitLedgers

\* C11 witness: the process has exited with the token set and the chat id
\* missing
C11_Witness ==
    /\ pc = "exited"
    /\ BOT_TOKEN # ""
    /\ CHAT_ID = ""
    /\ cycleNo = 0

(* ---------------- C12 ----------------------------------------------------- *)
\* C12: whenever a cycle loads a sources file that is absent, unparsable, of
\* the wrong shape or without urls, the cycle ends there and the loop goes to
\* its sleep: nothing is fetched or delivered, the ledger is unchanged, and
\* no exception leaves the cycle.
C12_BadSourcesSkipCycle ==
    [][ (pc = "load" /\ pc' \notin {"load", "stopped"}
           /\ sourcesFile' # "well_formed") =>
            /\ pc' = "sleep"
            /\ sources' = <<>>
            /\ running' = 0
            /\ delivered' = delivered
            /\ ledger' = ledger
      ]_vars

(* ---------------- C13 ----------------------------------------------------- *)
\* the fetch of a source raises
FetchFails == pc = "fetch" /\ failures' > failures

\* C13: when the fetch of a source raises, nothing is delivered, the ledger
\* and posts_remaining are unchanged, the cycle goes on with the source loop
\* at the next source, and the source loop then fetches that source whenever
\* budget remains: but for the position in the source list the state is the
\* one before the failed fetch.
C13_FetchFailureContained ==
    [][ /\ FetchFails =>
              /\ pc' = "src_loop"
              /\ srcIdx' = srcIdx + 1
              /\ sources' = sources
              /\ posts_remaining' = posts_remaining
              /\ ledger' = ledger
              /\ delivered' = delivered
              /\ cycleDelivered' = cycleDelivered
              /\ running' = running
              /\ cycleNo' = cycleNo
              /\ cycleStop' = cycleStop
              /\ now' = now
        /\ (pc = "src_loop" /\ pc' \notin {pc, "stopped"}) =>
              IF srcIdx <= Len(sources) /\ posts_remaining > 0
              THEN pc' = "fetch" /\ srcIdx' = srcIdx
              ELSE pc' = "sleep"
      ]_vars

\* C13 witness: in the first cycle, on an empty ledger, the fetch of the
\* first source failed (the one failure so far: nothing of the first source
\* was delivered and no stop was seen) and the first entry of the second
\* source has been delivered
C13_Witness ==
    /\ cycleNo = 1
    /\ sourcesFile = "well_formed"
    /\ srcIdx = 2
    /\ pc = "mark"
    /\ idx = 1
    /\ cycleStop = "none"
    /\ failures = 1
    /\ ledger = {}
    /\ Len(delivered) = 1
    /\ delivered[1].url = Feed(AllSources[2])[1]
    /\ posts_left = startAllowed

(* ---------------- C14 ----------------------------------------------------- *)
\* the steps of safe_send_html: at most two calls of send_message_telegram
\* for an entry; the retry follows the sleep, which follows only a first send
\* answered with a rate limit; a first send answered with an error or an
\* exception leads to the cooldown; an accepted send is the only delivery of
\* the entry and leads to mark_sent, after which no send follows
RetryDiscipline ==
    /\ attempts' \in 0..2
    /\ attempts' > attempts =>
          /\ attempts' = attempts + 1
          /\ pc = IF attempts = 0 THEN "send1" ELSE "send2"
    /\ (pc' = "backoff" /\ pc # "backoff") =>
          pc = "send1" /\ decision' = "rate_limited"
    /\ (pc' = "send2" /\ pc # "send2") => pc = "backoff" /\ attempts = 1
    /\ (pc = "send1" /\ attempts' > attempts /\ decision' = "failed") =>
          pc' = "cooldown"
    /\ (pc = "send2" /\ attempts' > attempts /\ delivered' = delivered) =>
          pc' = "cooldown"
    /\ Len(delivered') # Len(delivered) =>
          /\ pc \in {"send1", "send2"} /\ pc' = "mark"
          /\ delivered' = Append(delivered, Delivery(CurUrl, now))
    /\ (pc = "mark" /\ pc' # pc) =>
          pc' \in {"delay", "src_loop", "stopped"}

\* mark_sent has recorded the entry delivered by the retry: one row more
RecordedStep ==
    /\ pc' = "delay"
    /\ ledger' = ledger \cup {Row(CurUrl, TitleOf(CurUrl), now)}
    /\ Cardinality(ledger') = Cardinality(ledger) + 1
    /\ Cardinality({r \in ledger' : r.url = CurUrl}) = 1
    /\ delivered'[Len(delivered)].recorded

\* the step that follows a delivery made by the retry
AfterRetryDelivery == pc = "mark" /\ attempts = 2 /\ pc' # pc

InFlight == {"backoff", "send2", "mark"}

\* C15: a shutdown takes effect only when no delivery is under way: the
\* process never stops between the first send of an entry and the return of
\* its mark_sent, so no entry is left delivered but unrecorded by a shutdown.
C15_ShutdownFinishesItem == [][pc' = "stopped" => pc \notin InFlight]_vars

(* ---------------- C16 ----------------------------------------------------- *)
\* the for loops only move forward within a cycle: sources in list order,
\* entries in feed order
LoopsForward ==
    /\ (srcIdx # 0 /\ srcIdx' # 0) => srcIdx' >= srcIdx
    /\ (idx # 0 /\ idx' # 0) => (srcIdx' = srcIdx /\ idx' >= idx)

\* C16: deliveries follow the order of the sources and of the entries; no
\* entry is taken up for evaluation after a delivery of the same cycle
\* before the sleep of line 288 has followed that delivery; that sleep
\* starts only when mark_sent has written the row of the entry.
C16_OrderAndPacing ==
    [][ /\ LoopsForward
        /\ EvalStep => ~unpaced
        /\ (pc' = "delay" /\ pc # "delay") =>
              /\ pc = "mark"
              /\ \E r \in ledger' : r.url = CurUrl
      ]_vars

(* ---------------- C17 ----------------------------------------------------- *)
\* the entry under the loop is found in the ledger by the duplicate check,
\* or its domain is found at the cap by the domain check
ItemSkipped ==
    \/ pc = "dup" /\ (\E r \in ledger : r.url_hash = norm_hash(CurUrl))
    \/ /\ pc = "domain"
       /\ domain_from_url(CurUrl) # ""
       /\ Cardinality({r \in ledger : r.domain = domain_from_url(CurUrl)
                                      /\ r.ts >= now - DaySeconds})
             >= DOMAIN_MAX_PER_24H

\* C17: when the duplicate check or the domain check skips an entry (and the
\* ledger read did not raise), the loop is at the next entry of the same
\* feed in the same step, with no sleep, and the ledger, the deliveries,
\* sent, posts_left, posts_remaining, the source position and the stop
\* signal of the cycle are unchanged; an entry that is no duplicate is not
\* skipped by the duplicate check, and one whose domain is below the cap is
\* not skipped by the domain check.
C17_SkipsDoNotHalt ==
    [][ /\ (ItemSkipped /\ failures' = failures /\ pc' # "stopped") =>
              /\ pc' = "item"
              /\ idx' = idx + 1
              /\ entries' = entries
              /\ now' = now
              /\ ledger' = ledger
              /\ delivered' = delivered
              /\ <<sent, posts_left, posts_remaining, srcIdx>>'
                    = <<sent, posts_left, posts_remaining, srcIdx>>
              /\ cycleStop' = cycleStop
        /\ (pc \in {"dup", "domain"} /\ ~ItemSkipped
              /\ failures' = failures /\ pc' # "stopped") =>
              /\ pc' = IF pc = "dup" THEN "domain" ELSE "send1"
              /\ idx' = idx
      ]_vars

\* C17 witness: in one feed the second entry was skipped as a duplicate and
\* the third because its domain was at the cap, and the fourth, of another
\* domain, has been delivered with the run budget that remained
C17_Witness ==
    /\ pc = "mark"
    /\ srcIdx = 1
    /\ idx = 4
    /\ entries[1] = entries[2]
    /\ HasRow(entries[1])
    /\ ~HasRow(entries[3])
    /\ domain_from_url(entries[3]) = domain_from_url(entries[1])
    /\ domain_from_url(entries[4]) # domain_from_url(entries[1])
    /\ cycleDelivered = 2
    /\ sent = 1
    /\ delivered[Len(delivered)].url = entries[4]
    /\ failures = 0

(* ---------------- the night check over all hours ------------------------- *)
\* main_job at its night check (line 301) in a first cycle, at any hour of
\* the day and with any pair of hours configured
NightInit ==
    /\ pc = "night0"
    /\ now \in {h * 3600 : h \in 0..23}
    /\ nightStart \in 0..23
    /\ nightEnd \in 0..23
    /\ BOT_TOKEN = "set"
    /\ CHAT_ID = "set"
    /\ ledger = {}
    /\ sources = AllSources
    /\ sourcesFile = "well_formed"
    /\ cycleNo = 1
    /\ running = 1
    /\ srcIdx = 0
    /\ posts_remaining = 0
    /\ entries = <<>>
    /\ idx = 0
    /\ sent = 0
    /\ posts_left = 0
    /\ domain_count = 0
    /\ attempts = 0
    /\ sleepUntil = 0
    /\ failures = 0
    /\ delivered = <<>>
    /\ cycleDelivered = 0
    /\ cycleStop = "none"
    /\ startAllowed = -1
    /\ lastDone = -1
    /\ decision = "none"
    /\ unpaced = FALSE

NightNext == NightAtStart

NightSpec == NightInit /\ [][NightNext]_vars

(* ---------------- C18 ----------------------------------------------------- *)
\* the night check has been made and found night mode active
FoundNight == pc = "sleep" /\ cycleStop = "night"

\* the night check has been made and found night mode inactive
FoundDay == pc = "count0" /\ cycleStop = "none"

\* C18: for all hours h, start, end in 0..23 with start # end, the night
\* check finds night mode active exactly when start <= h < end if
\* start < end, and exactly when h >= start or h < end if start > end; with
\* start 0 and end 7 the hours 0 and 6 are night and 7 and 23 are not, with
\* start 22 and end 6 the hours 23 and 3 are night and 7 and 21 are not.
C18_NightPredicate ==
    (pc # "night0" /\ nightStart # nightEnd) =>
        LET h == HourOf(now)
            expected == IF nightStart < nightEnd
                        THEN nightStart <= h /\ h < nightEnd
                        ELSE h >= nightStart \/ h < nightEnd
        IN  /\ FoundNight \/ FoundDay
            /\ FoundNight <=> expected
            /\ (nightStart = 0 /\ nightEnd = 7 /\ h \in {0, 6}) => FoundNight
            /\ (nightStart = 0 /\ nightEnd = 7 /\ h \in {7, 23}) => FoundDay
            /\ (nightStart = 22 /\ nightEnd = 6 /\ h \in {23, 3}) => FoundNight
            /\ (nightStart = 22 /\ nightEnd = 6 /\ h \in {7, 21}) => FoundDay

\* C18 witness: with start 22 and end 6 the check at hour 3 found night mode
C18_Witness ==
    /\ FoundNight
    /\ nightStart = 22
    /\ nightEnd = 6
    /\ HourOf(now) = 3

(* ---------------- mark_sent over ledgers ------------------------------------ *)
\* the urls recorded by the calls of mark_sent below
RecordUrls == {U_a1, U_A2, U_n1}

\* mark_sent is about to be called, on a ledger as the process may find it
RecordInit ==
    /\ pc = "record"
    /\ now = StartTime
    /\ ledger \in InitLedgers
    /\ nightStart = NIGHT_START_HOUR
    /\ nightEnd = NIGHT_END_HOUR
    /\ BOT_TOKEN = "set"
    /\ CHAT_ID = "set"
    /\ sources = <<>>
    /\ sourcesFile = "none"
    /\ cycleNo = 0
    /\ running = 0
    /\ srcIdx = 0
    /\ posts_remaining = 0
    /\ entries = <<>>
    /\ idx = 0
    /\ sent = 0
    /\ posts_left = 0
    /\ domain_count = 0
    /\ attempts = 0
    /\ sleepUntil = 0
    /\ failures = 0
    /\ delivered = <<>>
    /\ cycleDelivered = 0
    /\ cycleStop = "none"
    /\ startAllowed = -1
    /\ lastDone = -1
    /\ decision = "none"
    /\ unpaced = FALSE

\* a call mark_sent(url, title) at the current clock value, for any url and
\* title, whether or not the url has a row; entries and idx hold the url
Record ==
    /\ pc = "record"
    /\ \E u \in RecordUrls, title \in Titles :
          /\ ledger' = mark_sent(ledger, u, title, now)
          /\ entries' = <<u>>
          /\ idx' = 1
    /\ UNCHANGED <<pc, now, environ, sourcesFile, unpaced, delivered,
                   cycleDelivered, jobvars, sent, posts_left, domain_count,
                   attempts, sched, failures, cycleStop, decision>>

\* the clock advances between two calls
RecordTick ==
    /\ pc = "record"
    /\ now + TickSeconds <= EndOfTime
    /\ now' = now + TickSeconds
    /\ UNCHANGED <<pc, ledger, environ, sourcesFile, unpaced, delivered,
                   cycleDelivered, jobvars, locals, sched, failures,
                   cycleStop, decision>>

RecordNext ==
    \/ Record
    \/ RecordTick

RecordSpec == RecordInit /\ [][RecordNext]_vars

(* ---------------- C19 ----------------------------------------------------- *)
\* no two rows of l have the same url_hash
UniqueHash(l) == \A r1, r2 \in l : r1.url_hash = r2.url_hash => r1 = r2

\* the rows of l with the hash of u
RowsOf(l, u) == {r \in l : r.url_hash = norm_hash(u)}

\* C19: a call of mark_sent for a url whose hash has a row leaves the
\* ledger as it is: the same rows, so the row keeps its timestamp, domain
\* and title; a call for a url without a row adds one row; after the call
\* the url has exactly one row, and no two rows share a hash.
C19_RecordIdempotent ==
    [][ (idx' = 1 /\ now' = now) =>
          LET u == entries'[1] IN
            /\ ledger \subseteq ledger'
            /\ RowsOf(ledger, u) # {} => ledger' = ledger
            /\ RowsOf(ledger, u) = {} =>
                  /\ Cardinality(ledger') = Cardinality(ledger) + 1
                  /\ \E title \in Titles :
                        ledger' = ledger \cup {Row(u, title, now)}
            /\ Cardinality(RowsOf(ledger', u)) = 1
            /\ UniqueHash(ledger')
      ]_vars

\* C19 witness: a url was recorded a second time, at a later clock value,
\* and its one row has the timestamp of the first call
C19_Witness ==
    /\ pc = "record"
    /\ idx = 1
    /\ now > StartTime
    /\ Cardinality(RowsOf(ledger, entries[1])) = 1
    /\ \A r \in RowsOf(ledger, entries[1]) : r.ts = StartTime
    /\ Cardinality(ledger) >= 2

(* ---------------- C20 ----------------------------------------------------- *)
\* positions of main_job and process_source past the night check of line 301
PastNightCheck == {"count0", "src_loop", "fetch", "item", "daily", "dup",
                   "domain", "send1", "backoff", "send2", "mark", "delay",
                   "cooldown"}

\* C20: when NIGHT_START_HOUR equals NIGHT_END_HOUR, in_night_mode is true at
\* every hour, no cycle gets past the night check at its start, no feed is
\* fetched, no send is made and the ledger stays as it was found.
C20_EqualHoursAlwaysNight ==
    nightStart = nightEnd =>
        /\ \A h \in 0..23 : NightWindow(h, nightStart, nightEnd)
        /\ in_night_mode(now)
        /\ pc \notin PastNightCheck
        /\ entries = <<>>
        /\ attempts = 0
        /\ delivered = <<>>
        /\ ledger \in InitLedgers
        /\ cycleStop \in {"none", "night"}
        /\ startAllowed = -1

\* C20 witness: with start and end both 13 and a well-formed sources file,
\* the second cycle was skipped at its night check although the ledger is
\* empty
C20_Witness ==
    /\ nightStart = 13
    /\ nightEnd = 13
    /\ cycleNo = 2
    /\ pc = "sleep"
    /\ sourcesFile = "well_formed"
    /\ cycleStop = "night"
    /\ ledger = {}
    /\ failures = 0

====
